---------------------------- MODULE Spec2Model ----------------------------
(***************************************************************************)
(* A model of scrubby's neural-network data pipeline (src/scrubby/model.py)*)
(* and of the two commands that drive it (src/scrubby/terminal.py).        *)
(*                                                                         *)
(* Conventions                                                             *)
(*   - a Python str is a sequence of one-character strings;                *)
(*   - a float32/float64 that only ever holds a small whole number (the    *)
(*     encoding 0.0 .. 4.0) is the integer of the same value;              *)
(*   - a numpy array / tensor is a record [shape, data]: the tuple of its  *)
(*     dimensions and the sequence of its rows;                            *)
(*   - a call that may raise returns a record with an err field, "none"    *)
(*     when it returned normally.                                          *)
(***************************************************************************)
EXTENDS Integers, Sequences, FiniteSets, TLC

VARIABLES
    pc,             \* the position of the run in the code
    \* ---- get_label_from_filename exercised on its own (SpecLabel)
    label_in,       \* the path handed to get_label_from_filename
    label_out,      \* what the call produced
    \* ---- train_test_val_split exercised on its own (SpecSplit)
    split_in,       \* [data_len, train_ratio, test_ratio]
    split_out,      \* [train, test, val], the three index lists
    \* ---- load_sequences exercised on its own (SpecLoad)
    load_in,        \* [file_path, fastq, alignment_info]
    load_out,       \* what the call returned and printed
    \* ---- the train and predict commands (Spec)
    cmd,            \* "train" or "predict"
    fastq_files,    \* argument: the list of FASTQ paths
    alignment_data, \* argument: <<>> (None) or <<path>>
    epochs,         \* argument of train
    weights_file,   \* the file at model_weights: [exists, aux_input_size]
    file_idx,       \* 1-based position of the `for` loop over fastq_files
    all_sequences,  \* train_nn: list of arrays, then the concatenated array
    all_labels,
    all_aux_inputs,
    has_aux_inputs,
    slices,         \* train_nn: the train/test/val slices of the three arrays
    model,          \* the HybridModel: [built, aux_input_size]
    fit,            \* model.fit and its EarlyStopping: [epoch, best, wait, ...]
    log,            \* what the command did so far, in order
    reports,        \* predict_nn: the per-file reports printed so far
    error           \* the exception that ended the command, "none" if none

labelVars == <<label_in, label_out>>
splitVars == <<split_in, split_out>>
loadVars == <<load_in, load_out>>
argVars == <<cmd, fastq_files, alignment_data, epochs>>
dataVars == <<all_sequences, all_labels, all_aux_inputs, has_aux_inputs>>
cmdVars == <<argVars, weights_file, file_idx, dataVars, slices, model, fit, log,
             reports, error>>

vars == <<pc, labelVars, splitVars, loadVars, cmdVars>>

CmdIdle ==
    /\ cmd = "idle" /\ fastq_files = "idle" /\ alignment_data = "idle"
    /\ epochs = "idle" /\ weights_file = "idle" /\ file_idx = "idle"
    /\ all_sequences = "idle" /\ all_labels = "idle" /\ all_aux_inputs = "idle"
    /\ has_aux_inputs = "idle" /\ slices = "idle" /\ model = "idle"
    /\ fit = "idle" /\ log = "idle" /\ reports = "idle" /\ error = "idle"

LabelIdle == label_in = "idle" /\ label_out = "idle"
SplitIdle == split_in = "idle" /\ split_out = "idle"
LoadIdle == load_in = "idle" /\ load_out = "idle"

-----------------------------------------------------------------------------
(* Program constants                                                       *)

INPUT_SIZE == 150
NUM_CLASSES == 5
NUM_CHROMOSOMES == 25

(* Bounds of the model                                                     *)

\* longest path enumerated exhaustively for get_label_from_filename
MaxLen == 6
\* largest item count handed to train_test_val_split on its own
MaxN == 4

None == "None"
NoErr == "none"

-----------------------------------------------------------------------------
(* Python str primitives                                                   *)

Min(a, b) == IF a < b THEN a ELSE b
Max(a, b) == IF a < b THEN b ELSE a

\* s[a:b] for 0 <= a
Slice(s, a, b) == SubSeq(s, a + 1, Min(b, Len(s)))

\* s[a:]
SliceFrom(s, a) == SubSeq(s, a + 1, Len(s))

\* str.rfind(sub): the highest 0-based index at which sub starts, -1 if none
Rfind(s, sub) ==
    LET hits == {i \in 0..(Len(s) - Len(sub)) : SubSeq(s, i + 1, i + Len(sub)) = sub}
    IN  IF hits = {} THEN -1 ELSE CHOOSE i \in hits : \A j \in hits : j <= i

\* str.find(sub): the lowest 0-based index at which sub starts, -1 if none
Find(s, sub) ==
    LET hits == {i \in 0..(Len(s) - Len(sub)) : SubSeq(s, i + 1, i + Len(sub)) = sub}
    IN  IF hits = {} THEN -1 ELSE CHOOSE i \in hits : \A j \in hits : i <= j

\* `sub in s` for two str
IsSubstring(sub, s) == Find(s, sub) # -1

\* os.path.basename on a POSIX path: everything after the last "/"
basename(p) == SliceFrom(p, Rfind(p, <<"/">>) + 1)

\* os.path.splitext(p)[0] (genericpath._splitext with sep "/", extsep "."):
\* split at the last dot unless only dots lie between the last "/" and it
RECURSIVE splitext_scan(_, _, _)
splitext_scan(p, filenameIndex, dotIndex) ==
    IF filenameIndex < dotIndex
    THEN IF p[filenameIndex + 1] # "."
         THEN Slice(p, 0, dotIndex)
         ELSE splitext_scan(p, filenameIndex + 1, dotIndex)
    ELSE p

splitext_root(p) ==
    LET sepIndex == Rfind(p, <<"/">>)
        dotIndex == Rfind(p, <<".">>)
    IN  IF dotIndex > sepIndex
        THEN splitext_scan(p, sepIndex + 1, dotIndex)
        ELSE p

Digits == {"0", "1", "2", "3", "4", "5", "6", "7", "8", "9"}

DigitVal(c) ==
    CASE c = "0" -> 0 [] c = "1" -> 1 [] c = "2" -> 2 [] c = "3" -> 3
      [] c = "4" -> 4 [] c = "5" -> 5 [] c = "6" -> 6 [] c = "7" -> 7
      [] c = "8" -> 8 [] c = "9" -> 9

\* the literals int(str) accepts (no surrounding whitespace in the model's
\* alphabet): an optional sign, then digits with single "_" between digits
IsIntLiteral(s) ==
    LET body == IF Len(s) > 0 /\ s[1] \in {"-", "+"} THEN Tail(s) ELSE s
    IN  /\ Len(body) > 0
        /\ body[1] \in Digits
        /\ body[Len(body)] \in Digits
        /\ \A i \in 1..Len(body) : body[i] \in Digits \cup {"_"}
        /\ \A i \in 1..(Len(body) - 1) : ~(body[i] = "_" /\ body[i + 1] = "_")

RECURSIVE DecValue(_, _)
DecValue(body, acc) ==
    IF body = <<>> THEN acc
    ELSE IF Head(body) = "_" THEN DecValue(Tail(body), acc)
         ELSE DecValue(Tail(body), 10 * acc + DigitVal(Head(body)))

\* int(s) for an accepted literal
IntValue(s) ==
    IF s[1] = "-" THEN 0 - DecValue(Tail(s), 0)
    ELSE IF s[1] = "+" THEN DecValue(Tail(s), 0)
    ELSE DecValue(s, 0)

-----------------------------------------------------------------------------
(* get_label_from_filename                                                 *)

Ok(v) == [err |-> NoErr, val |-> v]
Raise(e) == [err |-> e, val |-> None]
Pending == [err |-> "pending", val |-> None]

\* a plausible slip: one extension stripped instead of two
get_label_one_splitext(path) ==
    LET filename == splitext_root(basename(path))
        label_pos == Rfind(filename, <<"_", "_">>)
    IN  IF label_pos # -1
        THEN IF IsIntLiteral(SliceFrom(filename, label_pos + 2))
             THEN Ok(IntValue(SliceFrom(filename, label_pos + 2)))
             ELSE Raise("ValueError: invalid literal for int()")
        ELSE Raise("ValueError: Invalid filename format for extracting label")

get_label_from_filename(path) ==
    LET filename == splitext_root(splitext_root(basename(path)))
        label_pos == Rfind(filename, <<"_", "_">>)
    IN  IF label_pos # -1
        THEN IF IsIntLiteral(SliceFrom(filename, label_pos + 2))
             THEN Ok(IntValue(SliceFrom(filename, label_pos + 2)))
             ELSE Raise("ValueError: invalid literal for int()")
        ELSE Raise("ValueError: Invalid filename format for extracting label")

-----------------------------------------------------------------------------
(* SpecLabel: get_label_from_filename over every short path and the        *)
(* documented examples                                                     *)

PathAlphabet == {"x", "_", ".", "3", "/"}

Str_sample_3_fastq_gz ==
    <<"s", "a", "m", "p", "l", "e", "_", "_", "3", ".", "f", "a", "s", "t", "q", ".", "g", "z">>
Str_x_1_fastq == <<"x", "_", "_", "1", ".", "f", "a", "s", "t", "q">>
Str_dir_x_7_fq_gz ==
    <<"d", "_", "_", "2", ".", "d", "/", "x", "_", "_", "7", ".", "f", "q", ".", "g", "z">>
Str_neg == <<"x", "_", "_", "-", "1", ".", "f", "q", ".", "g", "z">>
Str_three_ext == <<"x", "_", "_", "1", ".", "t", "a", "r", ".", "f", "q", ".", "g", "z">>

ExamplePaths ==
    {Str_sample_3_fastq_gz, Str_x_1_fastq, Str_dir_x_7_fq_gz, Str_neg, Str_three_ext}

ShortPaths == UNION {[1..n -> PathAlphabet] : n \in 0..MaxLen}

InitLabel ==
    /\ pc = "label_call"
    /\ label_in \in ShortPaths \cup ExamplePaths
    /\ label_out = Pending
    /\ SplitIdle
    /\ LoadIdle
    /\ CmdIdle

GetLabel ==
    /\ pc = "label_call"
    /\ label_out' = get_label_from_filename(label_in)
    /\ pc' = "label_done"
    /\ UNCHANGED <<label_in, splitVars, loadVars, cmdVars>>

NextLabel == GetLabel

SpecLabel == InitLabel /\ [][NextLabel]_vars

(* What the documentation says the label is, stated without the code's     *)
(* index arithmetic.                                                       *)

\* the name with one trailing extension removed: the text before the last
\* dot, provided something other than dots precedes that dot
DocStripExt(b) ==
    LET dots == {d \in 1..Len(b) : b[d] = "." /\ \E j \in 1..(d - 1) : b[j] # "."}
        last == {d \in 1..Len(b) : b[d] = "." /\ \A e \in (d + 1)..Len(b) : b[e] # "."}
    IN  IF dots \cap last = {} THEN b
        ELSE SubSeq(b, 1, (CHOOSE d \in dots \cap last : TRUE) - 1)

\* the base name: what follows the last "/"
DocBase(p) ==
    CHOOSE b \in {SubSeq(p, i, Len(p)) : i \in 1..(Len(p) + 1)} :
        /\ \A k \in 1..Len(b) : b[k] # "/"
        /\ Len(b) = Len(p) \/ p[Len(p) - Len(b)] = "/"

DocStripped(p) == DocStripExt(DocStripExt(DocBase(p)))

\* the texts t such that the name ends with "__" followed by t
DocAfterSep(s) ==
    {SubSeq(s, i + 2, Len(s)) : i \in {j \in 1..(Len(s) - 1) : s[j] = "_" /\ s[j + 1] = "_"}}

\* what follows the last "__": the shortest such text
DocLabelText(s) ==
    CHOOSE t \in DocAfterSep(s) : \A u \in DocAfterSep(s) : Len(t) <= Len(u)

\* C3: get_label_from_filename strips both trailing extensions from the
\* base name and returns the integer that follows the last "__" of what
\* remains (sample__3.fastq.gz gives 3, x__1.fastq gives 1); a stripped
\* name without "__" raises the format error and yields no label.
C3_LabelFromFilename ==
    pc = "label_done" =>
        LET s == DocStripped(label_in) IN
        /\ DocAfterSep(s) = {} =>
                label_out = Raise("ValueError: Invalid filename format for extracting label")
        /\ (DocAfterSep(s) # {} /\ IsIntLiteral(DocLabelText(s))) =>
                (label_out.err = NoErr /\ label_out.val = IntValue(DocLabelText(s)))
        /\ (DocAfterSep(s) # {} /\ ~IsIntLiteral(DocLabelText(s))) =>
                label_out = Raise("ValueError: invalid literal for int()")
        /\ label_in = Str_sample_3_fastq_gz => label_out = Ok(3)
        /\ label_in = Str_x_1_fastq => label_out = Ok(1)

\* a path with two extensions whose label was returned
C3_Witness ==
    /\ pc = "label_done"
    /\ label_in = Str_sample_3_fastq_gz
    /\ label_out = Ok(3)

-----------------------------------------------------------------------------
(* train_test_val_split                                                    *)

\* A ratio is the float num/den.  int(data_len * ratio) is the floor of the
\* exact product whenever the float product is exact: for every dyadic
\* ratio, and for the literals 0.7 and 0.15 of train_nn while data_len < 90
\* (int(90 * 0.7) is 62, the first data_len at which Python's product
\* rounds below the exact one).
Ratio(n, d) == [num |-> n, den |-> d]

IntOfProduct(data_len, ratio) == (data_len * ratio.num) \div ratio.den

\* every outcome of random.shuffle(list(range(data_len)))
Shuffles(data_len) ==
    {p \in [1..data_len -> 0..(data_len - 1)] :
        \A a, b \in 1..data_len : p[a] = p[b] => a = b}

\* a plausible slip: the test cut point forgets to start from train_end
train_test_val_split_abs_cut(data_len, train_ratio, test_ratio, indices) ==
    LET train_end == IntOfProduct(data_len, train_ratio)
        test_end == IntOfProduct(data_len, test_ratio)
    IN  [train |-> Slice(indices, 0, train_end),
         test |-> Slice(indices, train_end, test_end),
         val |-> SliceFrom(indices, test_end)]

\* indices is the list after random.shuffle
train_test_val_split(data_len, train_ratio, test_ratio, indices) ==
    LET train_end == IntOfProduct(data_len, train_ratio)
        test_end == train_end + IntOfProduct(data_len, test_ratio)
    IN  [train |-> Slice(indices, 0, train_end),
         test |-> Slice(indices, train_end, test_end),
         val |-> SliceFrom(indices, test_end)]

(* SpecSplit: train_test_val_split over every small item count, every pair *)
(* of ratios of the grid with train_ratio + test_ratio <= 1, every shuffle *)

RatioGrid == {Ratio(k, 8) : k \in 0..8} \cup {Ratio(7, 10), Ratio(3, 20)}

RatioSumAtMostOne(a, b) == a.num * b.den + b.num * a.den <= a.den * b.den

InitSplit ==
    /\ pc = "split_call"
    /\ LabelIdle
    /\ LoadIdle
    /\ CmdIdle
    /\ \E n \in 0..MaxN, tr \in RatioGrid, te \in RatioGrid :
          /\ RatioSumAtMostOne(tr, te)
          /\ split_in = [data_len |-> n, train_ratio |-> tr, test_ratio |-> te]
    /\ split_out = "idle"

SplitCall ==
    /\ pc = "split_call"
    /\ \E indices \in Shuffles(split_in.data_len) :
          split_out' = train_test_val_split(split_in.data_len, split_in.train_ratio,
                                            split_in.test_ratio, indices)
    /\ pc' = "split_done"
    /\ UNCHANGED <<labelVars, split_in, loadVars, cmdVars>>

NextSplit == SplitCall

SpecSplit == InitSplit /\ [][NextSplit]_vars

\* how many positions of list l hold index x
Occurrences(l, x) == Cardinality({k \in 1..Len(l) : l[k] = x})

\* floor(n * num / den), from the definition of floor
FloorOfProduct(n, r) ==
    CHOOSE q \in 0..n : q * r.den <= n * r.num /\ n * r.num < (q + 1) * r.den

-----------------------------------------------------------------------------
(* Sequence encoding and numpy arrays                                      *)

\* mapping.get(base, 0.0)
BaseValue(base) ==
    CASE base = "A" -> 1 [] base = "C" -> 2 [] base = "G" -> 3 [] base = "T" -> 4
      [] OTHER -> 0

normalize_sequence(seq) == [k \in 1..Len(seq) |-> BaseValue(seq[k])]

\* np.array(rows) of a list of equally shaped tensors: an empty list gives
\* the one-dimensional empty array
np_array(rows, row_shape) ==
    IF rows = <<>> THEN [shape |-> <<0>>, data |-> <<>>]
    ELSE [shape |-> <<Len(rows)>> \o row_shape, data |-> rows]

\* len(array)
np_len(a) == a.shape[1]

RECURSIVE ConcatAll(_)
ConcatAll(seqs) == IF seqs = <<>> THEN <<>> ELSE Head(seqs) \o ConcatAll(Tail(seqs))

RECURSIVE SumAll(_)
SumAll(ns) == IF ns = <<>> THEN 0 ELSE Head(ns) + SumAll(Tail(ns))

\* np.concatenate(arrays) along axis 0: the arrays must agree in rank and
\* in every other dimension
np_concatenate(arrays) ==
    IF arrays = <<>> THEN Raise("ValueError: need at least one array to concatenate")
    ELSE IF \E k \in 1..Len(arrays) : Tail(arrays[k].shape) # Tail(arrays[1].shape)
    THEN Raise("ValueError: all the input arrays must have same number of dimensions")
    ELSE Ok([shape |-> <<SumAll([k \in 1..Len(arrays) |-> arrays[k].shape[1]])>>
                          \o Tail(arrays[1].shape),
             data |-> ConcatAll([k \in 1..Len(arrays) |-> arrays[k].data])])

\* array[indices] for a list of 0-based row indices
np_take(a, indices) ==
    IF \E k \in 1..Len(indices) : indices[k] >= np_len(a)
    THEN Raise("IndexError: index out of bounds")
    ELSE Ok([shape |-> <<Len(indices)>> \o Tail(a.shape),
             data |-> [k \in 1..Len(indices) |-> a.data[indices[k] + 1]]])

-----------------------------------------------------------------------------
(* load_alignment_info                                                     *)

Whitespace == {" ", "\n", "\t", "\r"}

RECURSIVE lstrip(_)
lstrip(s) == IF s # <<>> /\ Head(s) \in Whitespace THEN lstrip(Tail(s)) ELSE s

RECURSIVE rstrip(_)
rstrip(s) ==
    IF s # <<>> /\ s[Len(s)] \in Whitespace THEN rstrip(SubSeq(s, 1, Len(s) - 1)) ELSE s

\* str.strip()
strip(s) == rstrip(lstrip(s))

\* str.split(','): one more field than commas
RECURSIVE split_comma(_)
split_comma(s) ==
    LET c == Find(s, <<",">>)
    IN  IF c = -1 THEN <<s>>
        ELSE <<Slice(s, 0, c)>> \o split_comma(SliceFrom(s, c + 1))

\* a dict as a function; d[key] = value set or overwritten
DictSet(d, key, value) ==
    [k \in DOMAIN d \cup {key} |-> IF k = key THEN value ELSE d[k]]

EmptyDict == [k \in {} |-> 0]

\* the body of the per-line loop on one line
alignment_line(alignment_info, line) ==
    LET parts == split_comma(strip(line))
    IN  IF Len(parts) < 4 THEN Raise("IndexError: list index out of range")
        ELSE IF ~(IsIntLiteral(parts[2]) /\ IsIntLiteral(parts[3]) /\ IsIntLiteral(parts[4]))
        THEN Raise("ValueError: invalid literal for int()")
        ELSE Ok(DictSet(alignment_info, parts[1],
                        <<IntValue(parts[2]), IntValue(parts[3]), IntValue(parts[4])>>))

RECURSIVE alignment_lines(_, _)
alignment_lines(alignment_info, lines) ==
    IF lines = <<>> THEN Ok(alignment_info)
    ELSE LET r == alignment_line(alignment_info, Head(lines))
         IN  IF r.err # NoErr THEN r ELSE alignment_lines(r.val, Tail(lines))

\* lines: the lines of the file at file_path
load_alignment_info(lines) == alignment_lines(EmptyDict, lines)

-----------------------------------------------------------------------------
(* load_sequences                                                          *)

\* the three things train_nn and predict_nn pass as alignment_info:
\* None, a dict from load_alignment_info, or (train_nn) the path itself
AlignNone == [kind |-> "None", map |-> EmptyDict, str |-> <<>>]
AlignDict(d) == [kind |-> "dict", map |-> d, str |-> <<>>]
AlignStr(path) == [kind |-> "str", map |-> EmptyDict, str |-> path]

\* `if alignment_info:`
Truthy(ai) ==
    CASE ai.kind = "None" -> FALSE
      [] ai.kind = "dict" -> DOMAIN ai.map # {}
      [] ai.kind = "str" -> ai.str # <<>>

\* `read_id in alignment_info`: a key of the dict, a substring of the str
Contains(ai, read_id) ==
    CASE ai.kind = "dict" -> read_id \in DOMAIN ai.map
      [] ai.kind = "str" -> IsSubstring(read_id, ai.str)

\* `alignment_info[read_id]`
GetItem(ai, read_id) ==
    CASE ai.kind = "dict" -> Ok(ai.map[read_id])
      [] ai.kind = "str" -> Raise("TypeError: string indices must be integers")

\* tf.tensor_scatter_nd_update(tf.zeros([n]), [[index]], [1.0]); the
\* alignment files of the model hold only indices in [0, n)
OneHot(n, index) == [k \in 1..n |-> IF k = index + 1 THEN 1 ELSE 0]

\* the auxiliary tensor of one read, of shape (1, num_chromosomes + 2):
\* a single row
aux_input_of(entry, num_chromosomes) ==
    <<OneHot(num_chromosomes, entry[1]) \o <<entry[2]>> \o <<entry[3]>>>>

NoArray == [shape |-> <<>>, data |-> <<>>]
IsNone(a) == a.shape = <<>>

\* a plausible slip: a read of exactly INPUT_SIZE symbols is dropped too
TooShort_le(seq) == Len(seq) <= INPUT_SIZE

\* `if len(seq) < INPUT_SIZE`
TooShort(seq) == Len(seq) < INPUT_SIZE

\* the locals of load_sequences before its loop
LoadLocals == [seqs |-> <<>>, labels |-> <<>>, aux_inputs |-> <<>>, excluded |-> 0, total |-> 0]

\* the body of the per-record loop on one record
load_record(acc, record, alignment_info, seq_label, num_chromosomes) ==
    LET seq == normalize_sequence(record.seq)
        counted == [acc EXCEPT !.total = @ + 1]
        seq_tensor == Slice(seq, 0, INPUT_SIZE)
        kept == [counted EXCEPT !.seqs = Append(@, seq_tensor),
                                !.labels = Append(@, <<seq_label>>)]
    IN  IF TooShort(seq) THEN Ok([counted EXCEPT !.excluded = @ + 1])
        ELSE IF Truthy(alignment_info) /\ Contains(alignment_info, record.id)
        THEN LET entry == GetItem(alignment_info, record.id)
             IN  IF entry.err # NoErr THEN entry
                 ELSE Ok([kept EXCEPT !.aux_inputs =
                              Append(@, aux_input_of(entry.val, num_chromosomes))])
        ELSE Ok(kept)

RECURSIVE load_records(_, _, _, _, _)
load_records(acc, records, alignment_info, seq_label, num_chromosomes) ==
    IF records = <<>> THEN Ok(acc)
    ELSE LET r == load_record(acc, Head(records), alignment_info, seq_label, num_chromosomes)
         IN  IF r.err # NoErr THEN r
             ELSE load_records(r.val, Tail(records), alignment_info, seq_label, num_chromosomes)

\* fastq: the file at file_path, [readable, records].  The result holds the
\* three returned arrays and the two counters of the printed line.
load_sequences(file_path, fastq, alignment_info) ==
    LET seq_label == get_label_from_filename(file_path)
    IN  IF seq_label.err # NoErr THEN seq_label
        ELSE IF ~fastq.readable THEN Raise("OSError: cannot read FASTQ file")
        ELSE LET r == load_records(LoadLocals, fastq.records, alignment_info,
                                   seq_label.val, NUM_CHROMOSOMES)
             IN  IF r.err # NoErr THEN r
                 ELSE Ok([sequences |-> np_array(r.val.seqs, <<INPUT_SIZE, 1>>),
                          labels |-> np_array(r.val.labels, <<1>>),
                          aux_inputs |-> IF r.val.aux_inputs # <<>>
                                         THEN np_array(r.val.aux_inputs,
                                                       <<1, NUM_CHROMOSOMES + 2>>)
                                         ELSE NoArray,
                          excluded |-> r.val.excluded,
                          total |-> r.val.total])

-----------------------------------------------------------------------------
(* Files                                                                   *)

\* a read of the given length whose bases repeat the pattern
Read(id, length, pattern) ==
    [id |-> id, seq |-> [k \in 1..length |-> pattern[((k - 1) % Len(pattern)) + 1]]]

Id_r1 == <<"r", "1">>
Id_r2 == <<"r", "2">>

Pattern_ACGTN == <<"A", "C", "G", "T", "N">>
Pattern_Tag == <<"T", "a", "G">>

Path_a_1 == <<"a", "_", "_", "1", ".", "f", "q", ".", "g", "z">>
Path_b_7 == <<"d", "/", "b", "_", "_", "7", ".", "f", "q", ".", "g", "z">>
Path_e_0 == <<"e", "_", "_", "0", ".", "f", "q", ".", "g", "z">>
Path_nolabel == <<"n", "o", "l", "a", "b", "e", "l", ".", "f", "q", ".", "g", "z">>
Path_u_2 == <<"u", "_", "_", "2", ".", "f", "q", ".", "g", "z">>

Path_m_csv == <<"m", ".", "c", "s", "v">>
Path_r1_csv == <<"r", "1", ".", "c", "s", "v">>
Path_bad_csv == <<"b", "a", "d", ".", "c", "s", "v">>

Line_r1 == <<"r", "1", ",", "3", ",", "1", "0", ",", "1", "6", "0", "\n">>
Line_r2 == <<"r", "2", ",", "2", "4", ",", "5", ",", "1", "5", "6", "\n">>
Line_r1_again == <<"r", "1", ",", "0", ",", "7", ",", "1", "5", "7", "\n">>
Line_short == <<"r", "2", ",", "3", ",", "1", "0", "\n">>

\* the alignment-data files on disk
AlignmentLines(path) ==
    CASE path = Path_m_csv -> <<Line_r1, Line_r2, Line_r1_again>>
      [] path = Path_r1_csv -> <<Line_r1>>
      [] path = Path_bad_csv -> <<Line_r1, Line_short>>

-----------------------------------------------------------------------------
(* SpecLoad: load_sequences over every short file of reads around the      *)
(* INPUT_SIZE boundary and every kind of alignment_info                    *)

MaxReads == 2

ReadLengths == {0, INPUT_SIZE - 1, INPUT_SIZE, INPUT_SIZE + 1}

ReadKinds ==
    {Read(id, n, pat) : id \in {Id_r1, Id_r2}, n \in ReadLengths,
                        pat \in {Pattern_ACGTN, Pattern_Tag}}

FastqContents == UNION {[1..n -> ReadKinds] : n \in 0..MaxReads}

AlignmentInfos ==
    {AlignNone, AlignDict(EmptyDict), AlignStr(Path_m_csv), AlignStr(Path_r1_csv),
     AlignDict(load_alignment_info(AlignmentLines(Path_m_csv)).val),
     AlignDict(load_alignment_info(AlignmentLines(Path_r1_csv)).val)}

InitLoad ==
    /\ pc = "load_call"
    /\ LabelIdle
    /\ SplitIdle
    /\ CmdIdle
    /\ \E path \in {Path_a_1, Path_nolabel}, records \in FastqContents,
          ai \in AlignmentInfos :
          load_in = [file_path |-> path,
                     fastq |-> [readable |-> TRUE, records |-> records],
                     alignment_info |-> ai]
    /\ load_out = Pending

LoadCall ==
    /\ pc = "load_call"
    /\ load_out' = load_sequences(load_in.file_path, load_in.fastq, load_in.alignment_info)
    /\ pc' = "load_done"
    /\ UNCHANGED <<labelVars, splitVars, load_in, cmdVars>>

NextLoad == LoadCall

SpecLoad == InitLoad /\ [][NextLoad]_vars

\* the encoding as the data model states it
DocEncoding(symbol) ==
    IF symbol = "A" THEN 1 ELSE IF symbol = "C" THEN 2 ELSE IF symbol = "G" THEN 3
    ELSE IF symbol = "T" THEN 4 ELSE 0

DocLongEnough(record) == Len(record.seq) >= INPUT_SIZE

\* C2: a record is excluded iff its sequence has fewer than INPUT_SIZE
\* symbols; total = excluded + retained; the retained tensors are the
\* non-excluded records in file order, each of exactly INPUT_SIZE elements,
\* the encoding of the record's first INPUT_SIZE symbols.
C2_LoadFiltersAndEncodes ==
    (pc = "load_done" /\ load_out.err = NoErr) =>
        LET records == load_in.fastq.records
            retained == SelectSeq(records, DocLongEnough)
            out == load_out.val
        IN  /\ out.total = Len(records)
            /\ out.excluded = Cardinality({k \in 1..Len(records) : ~DocLongEnough(records[k])})
            /\ out.total = out.excluded + Len(out.sequences.data)
            /\ Len(out.sequences.data) = Len(retained)
            /\ \A k \in 1..Len(retained) :
                  /\ Len(out.sequences.data[k]) = INPUT_SIZE
                  /\ \A j \in 1..INPUT_SIZE :
                        out.sequences.data[k][j] = DocEncoding(retained[k].seq[j])

\* a load that kept a read longer than INPUT_SIZE after excluding a shorter one
C2_Witness ==
    /\ pc = "load_done"
    /\ load_out.err = NoErr
    /\ load_out.val.excluded = 1
    /\ Len(load_out.val.sequences.data) = 1
    /\ Len(load_in.fastq.records) = 2
    /\ Len(load_in.fastq.records[1].seq) = INPUT_SIZE - 1
    /\ Len(load_in.fastq.records[2].seq) = INPUT_SIZE + 1

-----------------------------------------------------------------------------
(* HybridModel                                                             *)

NoneOpt == <<>>
Some(x) == <<x>>

\* train_nn: `NUM_CHROMOSOMES + 2 if has_aux_inputs else None`
train_aux_input_size(has_aux, alignment) ==
    IF has_aux THEN Some(NUM_CHROMOSOMES + 2) ELSE NoneOpt

\* predict_nn: `NUM_CHROMOSOMES + 2 if alignment_data is not None else None`
predict_aux_input_size(alignment) ==
    IF alignment # NoneOpt THEN Some(NUM_CHROMOSOMES + 2) ELSE NoneOpt

\* HybridModel.__init__: aux_fc exists iff aux_input_size is not None
HybridModel(input_size, hidden_size, num_classes, aux_input_size) ==
    [built |-> TRUE, input_size |-> input_size, hidden_size |-> hidden_size,
     num_classes |-> num_classes, aux_input_size |-> aux_input_size,
     aux_fc |-> aux_input_size # NoneOpt]

NoModel == [built |-> FALSE, input_size |-> 0, hidden_size |-> 0, num_classes |-> 0,
            aux_input_size |-> NoneOpt, aux_fc |-> FALSE]

\* the shape self.cnn gives an input of shape (n, length, 1): two blocks of
\* Conv1D(kernel 3, no padding) and MaxPooling1D(2), 64 channels at the end
cnn_shape(shape) == <<shape[1], (((shape[2] - 2) \div 2) - 2) \div 2, 64>>

\* tf.concat(tensors, axis=1) of two tensors, by shape
concat_axis1(a, b) ==
    IF Len(a) # Len(b) THEN Raise("InvalidArgumentError: ranks of all input tensors should match")
    ELSE IF \E k \in 1..Len(a) : k # 2 /\ a[k] # b[k]
    THEN Raise("InvalidArgumentError: dimensions of inputs should match")
    ELSE Ok([k \in 1..Len(a) |-> IF k = 2 THEN a[k] + b[k] ELSE a[k]])

\* HybridModel.call by shape: the shape of the logits, or the exception
HybridModel_call(m, inputs, aux_input) ==
    IF Len(inputs.shape) # 3
    THEN Raise("ValueError: input is incompatible with the layer: expected ndim=3")
    ELSE LET x == cnn_shape(inputs.shape)
             lstm == <<x[1], x[2], 2 * m.hidden_size>>
             pooled == <<lstm[1], lstm[3]>>
             aux_out == [k \in 1..Len(aux_input.shape) |->
                            IF k = Len(aux_input.shape) THEN m.hidden_size
                            ELSE aux_input.shape[k]]
             fused == IF m.aux_fc /\ ~IsNone(aux_input) THEN concat_axis1(pooled, aux_out)
                      ELSE Ok(pooled)
         IN  IF fused.err # NoErr THEN fused
             ELSE Ok(<<fused.val[1], m.num_classes>>)

-----------------------------------------------------------------------------
(* The files of the commands                                               *)

\* the FASTQ files on disk
FastqDisk(path) ==
    CASE path = Path_a_1 ->
            [readable |-> TRUE,
             records |-> <<Read(Id_r2, INPUT_SIZE, Pattern_ACGTN),
                           Read(Id_r1, INPUT_SIZE - 1, Pattern_Tag)>>]
      [] path = Path_b_7 ->
            [readable |-> TRUE,
             records |-> <<Read(Id_r2, INPUT_SIZE + 1, Pattern_Tag),
                           Read(Id_r1, INPUT_SIZE, Pattern_ACGTN)>>]
      [] path = Path_e_0 ->
            [readable |-> TRUE, records |-> <<Read(Id_r1, INPUT_SIZE - 1, Pattern_ACGTN)>>]
      [] path = Path_nolabel ->
            [readable |-> TRUE, records |-> <<Read(Id_r1, INPUT_SIZE, Pattern_ACGTN)>>]
      [] path = Path_u_2 -> [readable |-> FALSE, records |-> <<>>]

FastqPaths == {Path_a_1, Path_b_7, Path_e_0, Path_nolabel, Path_u_2}
AlignmentPaths == {Path_m_csv, Path_r1_csv, Path_bad_csv}

MaxFiles == 2
MaxEpochs == 5

FileLists == UNION {[1..n -> FastqPaths] : n \in 1..MaxFiles}

-----------------------------------------------------------------------------
(* model.fit with EarlyStopping(patience=3)                                *)

PATIENCE == 3

\* a validation loss: a number, or nan; np.inf is the initial best
LossNum(v) == [kind |-> "num", v |-> v]
LossNaN == [kind |-> "nan", v |-> 0]
LossInf == [kind |-> "inf", v |-> 0]

LossChoices == {LossNum(1), LossNum(2)}

\* np.less(current, best): false for nan
IsImprovement(current, best) ==
    /\ current.kind = "num"
    /\ best.kind = "inf" \/ (best.kind = "num" /\ current.v < best.v)

FitStart == [epoch |-> 0, best |-> LossInf, wait |-> 0, stop_training |-> FALSE,
             val_losses |-> <<>>]

\* a plausible slip: the patience test is off by one (stops one epoch late)
on_epoch_end_late(f, val_loss) ==
    LET improved == IsImprovement(val_loss, f.best)
        wait == IF improved THEN 0 ELSE f.wait + 1
    IN  [epoch |-> f.epoch + 1,
         best |-> IF improved THEN val_loss ELSE f.best,
         wait |-> wait,
         stop_training |-> wait > PATIENCE,
         val_losses |-> Append(f.val_losses, val_loss)]

\* one epoch of the fit loop ending with EarlyStopping.on_epoch_end
on_epoch_end(f, val_loss) ==
    LET improved == IsImprovement(val_loss, f.best)
        wait == IF improved THEN 0 ELSE f.wait + 1
    IN  [epoch |-> f.epoch + 1,
         best |-> IF improved THEN val_loss ELSE f.best,
         wait |-> wait,
         stop_training |-> wait >= PATIENCE,
         val_losses |-> Append(f.val_losses, val_loss)]

\* the rows of a labels array that sparse_categorical_crossentropy rejects
LabelsOutOfRange(labels_array) ==
    \E k \in 1..Len(labels_array.data) : labels_array.data[k][1] \notin 0..(NUM_CLASSES - 1)

-----------------------------------------------------------------------------
(* Spec: one run of the train command or of the predict command            *)

Event(ev, k) == [ev |-> ev, file |-> k]

NoSlices ==
    [train_sequences |-> NoArray, test_sequences |-> NoArray, val_sequences |-> NoArray,
     train_labels |-> NoArray, test_labels |-> NoArray, val_labels |-> NoArray,
     train_aux_inputs |-> NoArray, test_aux_inputs |-> NoArray, val_aux_inputs |-> NoArray]

Init ==
    /\ LabelIdle
    /\ split_in = [data_len |-> 0, train_ratio |-> Ratio(7, 10), test_ratio |-> Ratio(3, 20)]
    /\ split_out = [train |-> <<>>, test |-> <<>>, val |-> <<>>]
    /\ load_in = [file_path |-> <<>>, fastq |-> [readable |-> FALSE, records |-> <<>>],
                  alignment_info |-> AlignNone]
    /\ load_out = Pending
    /\ cmd \in {"train", "predict"}
    /\ fastq_files \in FileLists
    /\ alignment_data \in {NoneOpt} \cup {Some(path) : path \in AlignmentPaths}
    /\ epochs \in IF cmd = "train" THEN 1..MaxEpochs ELSE {0}
    /\ weights_file \in IF cmd = "train"
                        THEN {[exists |-> FALSE, aux_input_size |-> NoneOpt]}
                        ELSE {[exists |-> e, aux_input_size |-> NoneOpt] : e \in BOOLEAN}
    /\ pc = IF cmd = "train" THEN "train_load" ELSE "predict_start"
    /\ file_idx = 1
    /\ all_sequences = <<>>
    /\ all_labels = <<>>
    /\ all_aux_inputs = <<>>
    /\ has_aux_inputs = FALSE
    /\ slices = NoSlices
    /\ model = NoModel
    /\ fit = FitStart
    /\ log = <<>>
    /\ reports = <<>>
    /\ error = NoErr

\* train_nn hands the alignment_data argument itself to load_sequences
TrainAlignmentInfo ==
    IF alignment_data = NoneOpt THEN AlignNone ELSE AlignStr(alignment_data[1])

\* a plausible slip: a file that fails to load is skipped
TrainLoadFile_skip ==
    /\ cmd = "train"
    /\ pc = "train_load"
    /\ file_idx <= Len(fastq_files)
    /\ \E path \in {fastq_files[file_idx]} :
       \E r \in {load_sequences(path, FastqDisk(path), TrainAlignmentInfo)} :
           /\ load_in' = [file_path |-> path, fastq |-> FastqDisk(path),
                          alignment_info |-> TrainAlignmentInfo]
           /\ load_out' = r
           /\ log' = IF r.err # NoErr
                     THEN log \o <<Event("load", file_idx), Event("load_error", file_idx)>>
                     ELSE Append(log, Event("load", file_idx))
           /\ file_idx' = file_idx + 1
           /\ IF r.err # NoErr
              THEN UNCHANGED dataVars
              ELSE /\ all_sequences' = Append(all_sequences, r.val.sequences)
                   /\ all_labels' = Append(all_labels, r.val.labels)
                   /\ IF ~IsNone(r.val.aux_inputs)
                      THEN /\ all_aux_inputs' = Append(all_aux_inputs, r.val.aux_inputs)
                           /\ has_aux_inputs' = TRUE
                      ELSE UNCHANGED <<all_aux_inputs, has_aux_inputs>>
    /\ UNCHANGED <<pc, error, labelVars, splitVars, argVars, weights_file, slices, model,
                   fit, reports>>

\* one iteration of the loading loop of train_nn
TrainLoadFile ==
    /\ cmd = "train"
    /\ pc = "train_load"
    /\ file_idx <= Len(fastq_files)
    /\ \E path \in {fastq_files[file_idx]} :
       \E r \in {load_sequences(path, FastqDisk(path), TrainAlignmentInfo)} :
           /\ load_in' = [file_path |-> path, fastq |-> FastqDisk(path),
                          alignment_info |-> TrainAlignmentInfo]
           /\ load_out' = r
           /\ log' = IF r.err # NoErr
                     THEN log \o <<Event("load", file_idx), Event("load_error", file_idx)>>
                     ELSE Append(log, Event("load", file_idx))
           /\ IF r.err # NoErr
              THEN /\ pc' = "failed"
                   /\ error' = r.err
                   /\ UNCHANGED <<file_idx, dataVars>>
              ELSE /\ pc' = pc
                   /\ error' = error
                   /\ file_idx' = file_idx + 1
                   /\ all_sequences' = Append(all_sequences, r.val.sequences)
                   /\ all_labels' = Append(all_labels, r.val.labels)
                   /\ IF ~IsNone(r.val.aux_inputs)
                      THEN /\ all_aux_inputs' = Append(all_aux_inputs, r.val.aux_inputs)
                           /\ has_aux_inputs' = TRUE
                      ELSE UNCHANGED <<all_aux_inputs, has_aux_inputs>>
    /\ UNCHANGED <<labelVars, splitVars, argVars, weights_file, slices, model, fit, reports>>

\* array[indices] for the three index lists, None staying None
TakeOpt(a, indices) == IF IsNone(a) THEN Ok(NoArray) ELSE np_take(a, indices)

FirstError(results) ==
    LET bad == {k \in 1..Len(results) : results[k].err # NoErr}
    IN  IF bad = {} THEN NoErr ELSE results[CHOOSE k \in bad : \A j \in bad : k <= j].err

\* train_nn from the concatenation to the construction of the model
TrainPrepare ==
    /\ cmd = "train"
    /\ pc = "train_load"
    /\ file_idx > Len(fastq_files)
    /\ \E seqs \in {np_concatenate(all_sequences)}, labs \in {np_concatenate(all_labels)},
          auxs \in {IF has_aux_inputs THEN np_concatenate(all_aux_inputs) ELSE Ok(NoArray)} :
          IF FirstError(<<seqs, labs, auxs>>) # NoErr
          THEN /\ pc' = "failed"
               /\ error' = FirstError(<<seqs, labs, auxs>>)
               /\ UNCHANGED <<dataVars, splitVars, slices, model>>
          ELSE \E indices \in Shuffles(np_len(seqs.val)) :
               \E sp \in {train_test_val_split(np_len(seqs.val), Ratio(7, 10), Ratio(3, 20),
                                                indices)} :
               \E taken \in {<<np_take(seqs.val, sp.train), np_take(seqs.val, sp.test),
                                np_take(seqs.val, sp.val),
                                np_take(labs.val, sp.train), np_take(labs.val, sp.test),
                                np_take(labs.val, sp.val),
                                TakeOpt(auxs.val, sp.train), TakeOpt(auxs.val, sp.test),
                                TakeOpt(auxs.val, sp.val)>>} :
                   /\ all_sequences' = seqs.val
                   /\ all_labels' = labs.val
                   /\ all_aux_inputs' = auxs.val
                   /\ UNCHANGED has_aux_inputs
                   /\ split_in' = [data_len |-> np_len(seqs.val),
                                   train_ratio |-> Ratio(7, 10), test_ratio |-> Ratio(3, 20)]
                   /\ split_out' = sp
                   /\ IF FirstError(taken) # NoErr
                      THEN /\ pc' = "failed"
                           /\ error' = FirstError(taken)
                           /\ UNCHANGED <<slices, model>>
                      ELSE /\ slices' =
                               [train_sequences |-> taken[1].val,
                                test_sequences |-> taken[2].val,
                                val_sequences |-> taken[3].val,
                                train_labels |-> taken[4].val,
                                test_labels |-> taken[5].val,
                                val_labels |-> taken[6].val,
                                train_aux_inputs |-> taken[7].val,
                                test_aux_inputs |-> taken[8].val,
                                val_aux_inputs |-> taken[9].val]
                           /\ model' = HybridModel(INPUT_SIZE, 128, NUM_CLASSES,
                                          train_aux_input_size(has_aux_inputs, alignment_data))
                           /\ pc' = "fit"
                           /\ error' = error
    /\ UNCHANGED <<labelVars, loadVars, argVars, weights_file, file_idx, fit, log, reports>>

TrainSetEmpty == np_len(slices.train_sequences) = 0

BadLabels == LabelsOutOfRange(slices.train_labels) \/ LabelsOutOfRange(slices.val_labels)

\* one epoch of model.fit; the validation loss is whatever training gives
\* (two levels suffice to improve or not), nan when a label is out of range
\* and the device does not raise
FitEpoch ==
    /\ pc = "fit"
    /\ fit.epoch < epochs
    /\ ~fit.stop_training
    /\ ~TrainSetEmpty
    /\ \E val_loss \in IF BadLabels THEN {LossNaN} ELSE LossChoices :
          fit' = on_epoch_end(fit, val_loss)
    /\ UNCHANGED <<pc, labelVars, splitVars, loadVars, argVars, weights_file, file_idx,
                   dataVars, slices, model, log, reports, error>>

\* model.fit raises in its first epoch: nothing to train on, or a label
\* outside [0, NUM_CLASSES) on a device that checks it
FitRaise ==
    /\ pc = "fit"
    /\ fit.epoch = 0
    /\ TrainSetEmpty \/ BadLabels
    /\ pc' = "failed"
    /\ error' = IF TrainSetEmpty THEN "ValueError: expect x to be a non-empty array"
                ELSE "InvalidArgumentError: label value outside the valid range"
    /\ UNCHANGED <<labelVars, splitVars, loadVars, argVars, weights_file, file_idx,
                   dataVars, slices, model, fit, log, reports>>

\* model.fit returns: all epochs ran, or EarlyStopping set stop_training
FitReturn ==
    /\ pc = "fit"
    /\ fit.epoch > 0
    /\ fit.epoch >= epochs \/ fit.stop_training
    /\ pc' = "evaluate"
    /\ log' = Append(log, Event("fit_returned", 0))
    /\ UNCHANGED <<labelVars, splitVars, loadVars, argVars, weights_file, file_idx,
                   dataVars, slices, model, fit, reports, error>>

\* evaluate(...) and the print of the validation accuracy
Evaluate ==
    /\ pc = "evaluate"
    /\ LET predictions == HybridModel_call(model, slices.val_sequences, slices.val_aux_inputs)
       IN  IF predictions.err # NoErr
           THEN /\ pc' = "failed"
                /\ error' = predictions.err
                /\ UNCHANGED log
           ELSE /\ pc' = "save"
                /\ error' = error
                /\ log' = Append(log, Event("val_accuracy", 0))
    /\ UNCHANGED <<labelVars, splitVars, loadVars, argVars, weights_file, file_idx,
                   dataVars, slices, model, fit, reports>>

\* model.save_weights(model_weights)
SaveWeights ==
    /\ pc = "save"
    /\ weights_file' = [exists |-> TRUE, aux_input_size |-> model.aux_input_size]
    /\ log' = Append(log, Event("save_weights", 0))
    /\ pc' = "done"
    /\ UNCHANGED <<labelVars, splitVars, loadVars, argVars, file_idx, dataVars, slices,
                   model, fit, reports, error>>

\* np.bincount(predicted_classes, minlength=minlength)
bincount(predicted_classes, minlength) ==
    LET top == IF predicted_classes = <<>> THEN 0
               ELSE 1 + CHOOSE c \in {predicted_classes[k] : k \in 1..Len(predicted_classes)} :
                            \A k \in 1..Len(predicted_classes) : predicted_classes[k] <= c
    IN  [c \in 1..Max(minlength, top) |->
            Cardinality({k \in 1..Len(predicted_classes) : predicted_classes[k] = c - 1})]

\* count / total * 100 as the exact fraction num/den; 0/0 is nan
Percentage(count, total) ==
    IF total = 0 THEN [kind |-> "nan", num |-> 0, den |-> 0]
    ELSE [kind |-> "num", num |-> count * 100, den |-> total]

\* a plausible slip: the percentages are taken over the reads of the file,
\* excluded ones included
class_report_over_all_reads(k, path, predicted_classes, total_reads) ==
    LET class_counts == bincount(predicted_classes, NUM_CLASSES)
    IN  [file |-> k, fastq_path |-> path, class_counts |-> class_counts,
         total_predictions |-> total_reads,
         class_distribution |->
             [c \in 1..Len(class_counts) |-> Percentage(class_counts[c], total_reads)]]

\* the counts and percentages predict_nn prints for one file
class_report(k, path, predicted_classes, total_reads) ==
    LET class_counts == bincount(predicted_classes, NUM_CLASSES)
        total_predictions == Len(predicted_classes)
    IN  [file |-> k, fastq_path |-> path, class_counts |-> class_counts,
         total_predictions |-> total_predictions,
         class_distribution |->
             [c \in 1..Len(class_counts) |-> Percentage(class_counts[c], total_predictions)]]

\* the construction of the model and model.load_weights(model_weights)
PredictConstruct ==
    /\ cmd = "predict"
    /\ pc = "predict_start"
    /\ model' = HybridModel(INPUT_SIZE, 128, NUM_CLASSES, predict_aux_input_size(alignment_data))
    /\ IF ~weights_file.exists
       THEN pc' = "failed" /\ error' = "NotFoundError: no weights at model_weights"
       ELSE pc' = "predict_loop" /\ error' = error
    /\ UNCHANGED <<labelVars, splitVars, loadVars, argVars, weights_file, file_idx,
                   dataVars, slices, fit, log, reports>>

\* predict_nn reads the alignment file anew for every FASTQ file
PredictAlignmentInfo ==
    IF alignment_data = NoneOpt THEN Ok(AlignNone)
    ELSE LET d == load_alignment_info(AlignmentLines(alignment_data[1]))
         IN  IF d.err # NoErr THEN d ELSE Ok(AlignDict(d.val))

\* one iteration of the loop of predict_nn
PredictFile ==
    /\ cmd = "predict"
    /\ pc = "predict_loop"
    /\ file_idx <= Len(fastq_files)
    /\ \E path \in {fastq_files[file_idx]}, ai \in {PredictAlignmentInfo} :
          IF ai.err # NoErr
          THEN /\ pc' = "failed"
               /\ error' = ai.err
               /\ log' = Append(log, Event("load_error", file_idx))
               /\ UNCHANGED <<loadVars, file_idx, reports>>
          ELSE \E r \in {load_sequences(path, FastqDisk(path), ai.val)} :
               \E predictions \in {IF r.err # NoErr THEN r
                                    ELSE HybridModel_call(model, r.val.sequences,
                                                          r.val.aux_inputs)} :
                   /\ load_in' = [file_path |-> path, fastq |-> FastqDisk(path),
                                  alignment_info |-> ai.val]
                   /\ load_out' = r
                   /\ log' = IF r.err # NoErr
                             THEN log \o <<Event("load", file_idx),
                                           Event("load_error", file_idx)>>
                             ELSE Append(log, Event("load", file_idx))
                   /\ IF predictions.err # NoErr
                      THEN /\ pc' = "failed"
                           /\ error' = predictions.err
                           /\ UNCHANGED <<file_idx, reports>>
                      ELSE \E predicted_classes \in
                                  [1..predictions.val[1] -> 0..(NUM_CLASSES - 1)] :
                           /\ reports' = Append(reports,
                                             class_report(file_idx, path, predicted_classes,
                                                          r.val.total))
                           /\ file_idx' = file_idx + 1
                           /\ pc' = pc
                           /\ error' = error
    /\ UNCHANGED <<labelVars, splitVars, argVars, weights_file, dataVars, slices, model, fit>>

\* the loop of predict_nn is over
PredictReturn ==
    /\ cmd = "predict"
    /\ pc = "predict_loop"
    /\ file_idx > Len(fastq_files)
    /\ pc' = "done"
    /\ UNCHANGED <<labelVars, splitVars, loadVars, cmdVars>>

Next ==
    \/ TrainLoadFile
    \/ TrainPrepare
    \/ FitEpoch
    \/ FitRaise
    \/ FitReturn
    \/ Evaluate
    \/ SaveWeights
    \/ PredictConstruct
    \/ PredictFile
    \/ PredictReturn

Spec == Init /\ [][Next]_vars

-----------------------------------------------------------------------------
(* What the claims speak of, read off the files rather than off the run    *)

\* the reads of a file that are long enough to be kept
RetainedOf(path) == SelectSeq(FastqDisk(path).records, DocLongEnough)

\* the alignment file of the run parses
AlignmentParses ==
    /\ alignment_data # NoneOpt
    /\ load_alignment_info(AlignmentLines(alignment_data[1])).err = NoErr

\* the read identifiers that have an entry in the alignment file of the run
AlignmentIds == DOMAIN load_alignment_info(AlignmentLines(alignment_data[1])).val

AllRetainedMatched(path) ==
    \A k \in 1..Len(RetainedOf(path)) : RetainedOf(path)[k].id \in AlignmentIds

NoneRetainedMatched(path) ==
    \A k \in 1..Len(RetainedOf(path)) : RetainedOf(path)[k].id \notin AlignmentIds

RunFiles == {fastq_files[k] : k \in 1..Len(fastq_files)}

TrainPastLoading == cmd = "train" /\ pc \in {"fit", "evaluate", "save", "done"}

LabelInRange(row) == row[1] \in 0..(NUM_CLASSES - 1)

\* C4: every label held in a dataset produced by load_sequences, and so
\* every label train_nn passes to training, lies in [0, NUM_CLASSES).
C4_LabelsInRange ==
    /\ load_out.err = NoErr =>
          \A k \in 1..Len(load_out.val.labels.data) : LabelInRange(load_out.val.labels.data[k])
    /\ TrainPastLoading =>
          /\ \A k \in 1..Len(slices.train_labels.data) : LabelInRange(slices.train_labels.data[k])
          /\ \A k \in 1..Len(slices.val_labels.data) : LabelInRange(slices.val_labels.data[k])

\* C5: with an alignment-data path supplied and every retained read matched
\* in that file, every retained record of a loaded file carries an
\* auxiliary vector of length NUM_CHROMOSOMES + 2 and the run is treated as
\* having auxiliary data, in train_nn as in predict_nn.
C5_AuxWhenAllMatched ==
    /\ (AlignmentParses /\ load_out.err = NoErr /\ AllRetainedMatched(load_in.file_path)) =>
          /\ Len(load_out.val.aux_inputs.data) = Len(load_out.val.sequences.data)
          /\ \A k \in 1..Len(load_out.val.aux_inputs.data) :
                Len(load_out.val.aux_inputs.data[k][1]) = NUM_CHROMOSOMES + 2
    /\ (AlignmentParses /\ model.built /\ \A path \in RunFiles : AllRetainedMatched(path)) =>
          model.aux_input_size = Some(NUM_CHROMOSOMES + 2)

\* C9: with alignment data supplied and no read identifier matched, the
\* classifier is constructed without auxiliary width, by train_nn and by
\* predict_nn alike.
C9_NoMatchNoAuxWidth ==
    (AlignmentParses /\ model.built /\ error = NoErr
        /\ \A path \in RunFiles : NoneRetainedMatched(path)) =>
        model.aux_input_size = NoneOpt

\* C10: the collections load_sequences returns and the dataset train_nn
\* concatenates are parallel: as many labels as sequence tensors, and the
\* auxiliary collection absent or with one vector per sequence tensor, so
\* that every split index is valid for all three arrays.
C10_ParallelCollections ==
    /\ load_out.err = NoErr =>
          /\ Len(load_out.val.labels.data) = Len(load_out.val.sequences.data)
          /\ \/ IsNone(load_out.val.aux_inputs)
             \/ Len(load_out.val.aux_inputs.data) = Len(load_out.val.sequences.data)
    /\ TrainPastLoading =>
          /\ np_len(all_labels) = np_len(all_sequences)
          /\ IsNone(all_aux_inputs) \/ np_len(all_aux_inputs) = np_len(all_sequences)
          /\ \A k \in 1..Len(split_out.train) : split_out.train[k] < np_len(all_sequences)
          /\ \A k \in 1..Len(split_out.test) : split_out.test[k] < np_len(all_sequences)
          /\ \A k \in 1..Len(split_out.val) : split_out.val[k] < np_len(all_sequences)

\* the positions of the log that hold the given kind of event
LogPositions(ev) == {j \in 1..Len(log) : log[j].ev = ev}

RECURSIVE SumSeq(_)
SumSeq(q) == IF q = <<>> THEN 0 ELSE Head(q) + SumSeq(Tail(q))

\* the report of one file is as the claim describes it
GoodReport(r) ==
    LET retained == Len(RetainedOf(r.fastq_path))
    IN  /\ r.fastq_path = fastq_files[r.file]
        /\ Len(r.class_counts) = NUM_CLASSES
        /\ SumSeq(r.class_counts) = retained
        /\ \A c \in 1..NUM_CLASSES :
              /\ r.class_distribution[c].kind = "num"
              /\ r.class_distribution[c].den = retained
              /\ r.class_distribution[c].num = 100 * r.class_counts[c]
        /\ retained > 0
        /\ SumSeq([c \in 1..NUM_CLASSES |-> r.class_distribution[c].num]) = 100 * retained

PredictProcessed(k) ==
    \/ k < file_idx
    \/ k = file_idx /\ pc = "failed" /\ LogPositions("load_error") = {}
          /\ Event("load", k) \in {log[j] : j \in 1..Len(log)}

C7_LoadErrorAborts ==
    \A j \in LogPositions("load_error") :
        /\ j = Len(log)
        /\ pc = "failed"
        /\ error # NoErr
        /\ file_idx = log[j].file
        /\ \A n \in LogPositions("load") : log[n].file <= log[j].file
        /\ \A n \in 1..Len(reports) : reports[n].file < log[j].file
        /\ cmd = "train" => (~weights_file.exists /\ ~model.built /\ fit = FitStart)
        /\ ~ENABLED Next

\* a run whose second file failed to load after the first had loaded
C7_Witness ==
    /\ pc = "failed"
    /\ Len(fastq_files) = 2
    /\ LogPositions("load_error") # {}
    /\ file_idx = 2
    /\ Len(log) = 3

\* epoch e of the history did not improve the validation loss: its loss
\* is nan, or an earlier epoch was at least as good
DocFailedToImprove(h, e) ==
    \/ h[e].kind = "nan"
    \/ \E j \in 1..(e - 1) : h[j].kind = "num" /\ h[j].v <= h[e].v

\* the three epochs ending with epoch e all failed to improve
DocThreeFailures(h, e) ==
    /\ e >= PATIENCE
    /\ \A j \in (e - PATIENCE + 1)..e : DocFailedToImprove(h, j)

FitOver == cmd = "train" /\ pc \in {"evaluate", "save", "done"}

C8_Safety ==
    /\ (cmd = "train" /\ pc \in {"fit", "evaluate", "save", "done"}) =>
          /\ fit.epoch <= epochs
          /\ Len(fit.val_losses) = fit.epoch
          /\ \A e \in 1..(fit.epoch - 1) : ~DocThreeFailures(fit.val_losses, e)
          /\ pc # "done" => (~weights_file.exists /\ LogPositions("save_weights") = {})
    /\ FitOver =>
          (fit.epoch < epochs <=>
              \E e \in 1..(epochs - 1) :
                  e <= fit.epoch /\ DocThreeFailures(fit.val_losses, e))
    /\ (cmd = "train" /\ pc = "done") =>
          /\ weights_file = [exists |-> TRUE, aux_input_size |-> model.aux_input_size]
          /\ Cardinality(LogPositions("save_weights")) = 1
          /\ SubSeq(log, Len(log) - 2, Len(log)) =
                <<Event("fit_returned", 0), Event("val_accuracy", 0), Event("save_weights", 0)>>

\* every step taken inside the fit loop is one more epoch, so with
\* fit.epoch <= epochs the loop cannot go on for ever
C8_EpochCounts == (pc = "fit" /\ pc' = "fit") => fit'.epoch = fit.epoch + 1

\* the fit loop is never stuck: it can run an epoch, return or raise
C8_FitProgress == (cmd = "train" /\ pc \in {"fit", "evaluate", "save"}) => ENABLED Next

\* C8 (amended): the fit loop always terminates, after at most `epochs`
\* epochs; it halts before epoch `epochs` if and only if validation loss
\* has failed to improve for 3 consecutive epochs ending before epoch
\* `epochs`, and it runs no epoch after three such epochs; once fit has
\* returned, the weights are persisted exactly once, after fitting and
\* validation-accuracy reporting.
C8_FitTerminatesAndSaves ==
    /\ [](C8_Safety /\ C8_FitProgress)
    /\ [][C8_EpochCounts]_vars

\* a run stopped early by three epochs without improvement, and saved
C8_Witness ==
    /\ cmd = "train"
    /\ pc = "done"
    /\ fit.epoch < epochs
    /\ fit.stop_training
    /\ weights_file.exists

\* C8 as claimed, on runs whose validation losses are all numbers: fit
\* halts before epoch `epochs` if and only if validation loss has failed to
\* improve for 3 consecutive epochs.
C8_Original ==
    (FitOver /\ \A e \in 1..fit.epoch : fit.val_losses[e].kind = "num") =>
        (fit.epoch < epochs <=>
            \E e \in 1..fit.epoch : DocThreeFailures(fit.val_losses, e))

=============================================================================
